---- MODULE Spec2Model ----
(***************************************************************************)
(* Request builders, JSON serialization and response decoding of the       *)
(* llm-sdk crate (src/api/chat_completion.rs, src/api/create_image.rs).    *)
(*                                                                         *)
(* The structs derive derive_builder::Builder, serde::Serialize and        *)
(* serde::Deserialize; the definitions below spell out what those derives  *)
(* generate for the attributes written in the source.                      *)
(***************************************************************************)
EXTENDS Integers, Sequences, FiniteSets, TLC

\* Number of setter calls one run makes on the builders.
MaxCalls == 2

\* Number of choices in a response body.
MaxChoices == 1

VARIABLES
    chatBuilder,    \* the ChatCompletionRequestBuilder
    imageBuilder,   \* the CreateImageRequestBuilder
    hist,           \* per builder field, the arguments its setter was called with
    calls,          \* number of setter calls made
    ret,            \* what the most recent call returned
    body,           \* a response body handed to the decoder
    decoded,        \* what decoding the body returned
    failed          \* the builders a recorded build has failed on

vars == <<chatBuilder, imageBuilder, hist, calls, ret, body, decoded, failed>>

(***************************************************************************)
(* Option<T>: None is the empty tuple, Some(v) the one-element tuple.      *)
(***************************************************************************)
None == <<>>

Some(v) == <<v>>

IsSome(o) == Len(o) = 1

IsNone(o) == Len(o) = 0

(***************************************************************************)
(* Result<T, E>.                                                           *)
(***************************************************************************)
Ok(v) == [ok |-> TRUE, val |-> v]

Err(e) == [ok |-> FALSE, err |-> e]

(***************************************************************************)
(* serde_json::Value.  An object is a function from its keys to values     *)
(* (serde_json's Map keeps one value per key and compares without order).  *)
(***************************************************************************)
JNull == <<"null">>

JBool(b) == <<"bool", b>>

JNum(n) == <<"num", n>>

JStr(s) == <<"str", s>>

JArr(seq) == <<"arr", seq>>

JObj(f) == <<"obj", f>>

IsObj(j) == j[1] = "obj"

IsStr(j) == j[1] = "str"

Keys(j) == DOMAIN j[2]

\* The object with no keys.
NoFields == [k \in {} |-> JNull]

\* One struct field written by serialize_field.
Field(k, v) == k :> v

\* An Option field with no skip_serializing_if: None is written as null.
NullIfNone(k, o, j) == Field(k, IF IsNone(o) THEN JNull ELSE j)

\* A field under #[serde(skip_serializing_if = "Option::is_none")]; j is the
\* serialized content of o, read only when o is Some.
SkipIfNone(k, o, j) == IF IsNone(o) THEN NoFields ELSE Field(k, j)

\* A Vec field with no skip_serializing_if: an empty vec is written as [].
NeverSkip(k, vec, j) == Field(k, j)

\* A field under #[serde(skip_serializing_if = "Vec::is_empty")]; j is the
\* serialized vec.
SkipIfEmpty(k, vec, j) == IF Len(vec) = 0 THEN NoFields ELSE Field(k, j)

SerString(s) == JStr(s)

SerNumber(n) == JNum(n)

SerBool(b) == JBool(b)

\* Option<String> without skip_serializing_if: None is written as null.
SerOptionString(o) == IF IsNone(o) THEN JNull ELSE SerString(o[1])

(***************************************************************************)
(* Unit-variant enums: the wire token of each variant.                     *)
(***************************************************************************)
\* #[serde(rename = ...)] on every variant.
ChatCompleteModel ==
    [Gpt3Turbo         |-> "gpt-3.5-turbo-1106",
     Gpt3TurboInstruct |-> "gpt-3.5-turbo-instruct",
     Gpt4Turbo         |-> "gpt-4-1106-preview",
     Gpt4TurboVision   |-> "gpt-4-vision-preview"]

\* #[serde(rename_all = "snake_case")] with no per-variant rename.
ChatResponseFormat == [Text |-> "text", Json |-> "json"]

ToolType == [Function |-> "function"]

ImageModel == [DallE3 |-> "dall-e-3"]

ImageQuality == [Standard |-> "default", Hd |-> "hd"]

ImageResponseFormat == [Url |-> "url", B64Json |-> "b64_json"]

ImageSize == [Large |-> "1024x1024", LargeWide |-> "1792x1024", LargeTall |-> "1024x1792"]

ImageStyle == [Vivid |-> "vivid", Natural |-> "natural"]

FinishReason ==
    [Stop |-> "stop", Length |-> "length",
     ContentFilter |-> "content_filter", ToolCalls |-> "tool_calls"]

SerChatCompleteModel(m) == JStr(ChatCompleteModel[m])

SerChatResponseFormat(f) == JStr(ChatResponseFormat[f])

SerToolType(t) == JStr(ToolType[t])

SerImageModel(m) == JStr(ImageModel[m])

SerImageQuality(q) == JStr(ImageQuality[q])

SerImageResponseFormat(f) == JStr(ImageResponseFormat[f])

SerImageSize(s) == JStr(ImageSize[s])

SerImageStyle(s) == JStr(ImageStyle[s])

(***************************************************************************)
(* Messages.                                                               *)
(***************************************************************************)
\* A name taken as given, the empty one included.
some_name(name) == Some(name)

\* fn get_name(name: &str) -> Option<String>
get_name(name) == IF name = "" THEN None ELSE Some(name)

\* ChatCompletionMessage::new_system(content, name)
new_system(content, name) ==
    [variant |-> "System", content |-> content, name |-> get_name(name)]

\* ChatCompletionMessage::new_user(content, name)
new_user(content, name) ==
    [variant |-> "User", content |-> content, name |-> get_name(name)]

\* ChatCompletionMessage::Assistant(AssistantMessage { .. })
AssistantMessage(content, name, tool_calls) ==
    [variant |-> "Assistant", content |-> content, name |-> name,
     tool_calls |-> tool_calls]

\* ChatCompletionMessage::Tool(ToolMessage { .. })
ToolMessage(content, tool_call_id) ==
    [variant |-> "Tool", content |-> content, tool_call_id |-> tool_call_id]

\* ToolCall { id, type, function: FunctionCall { name, arguments } }
ToolCall(id, name, arguments) ==
    [id |-> id, type |-> "Function",
     function |-> [name |-> name, arguments |-> arguments]]

\* Tool { type, function: FunctionInfo { description, name, parameters } }
Tool(description, name, parameters) ==
    [type |-> "Function",
     function |-> [description |-> description, name |-> name,
                   parameters |-> parameters]]

SerSystemMessage(m) ==
    Field("content", SerString(m.content)) @@ SkipIfNone("name", m.name, SerString(m.name[1]))

SerUserMessage(m) ==
    Field("content", SerString(m.content)) @@ SkipIfNone("name", m.name, SerString(m.name[1]))

SerFunctionCall(f) ==
    JObj(Field("name", SerString(f.name)) @@ Field("arguments", SerString(f.arguments)))

SerToolCall(c) ==
    JObj(Field("id", SerString(c.id)) @@ Field("type", SerToolType(c.type))
         @@ Field("function", SerFunctionCall(c.function)))

\* Vec<T> serializes as an array of its elements, in order.
SerToolCalls(tcs) == JArr([i \in 1..Len(tcs) |-> SerToolCall(tcs[i])])

SerAssistantMessage(m) ==
    Field("content", SerString(m.content)) @@ SkipIfNone("name", m.name, SerString(m.name[1]))
    @@ SkipIfEmpty("tool_calls", m.tool_calls, SerToolCalls(m.tool_calls))

SerToolMessage(m) ==
    Field("content", SerString(m.content))
    @@ Field("tool_call_id", SerString(m.tool_call_id))

\* #[serde(rename_all = "snake_case", tag = "role")]: the variant's token.
MessageRole ==
    [System |-> "system", User |-> "user", Assistant |-> "assistant", Tool |-> "tool"]

\* An externally tagged enum: the fields of the variant's struct in an object
\* under the variant's token.
SerChatCompletionMessageWrapped(m) ==
    JObj(Field(MessageRole[m.variant],
               JObj(CASE m.variant = "System" -> SerSystemMessage(m)
                      [] m.variant = "User" -> SerUserMessage(m)
                      [] m.variant = "Assistant" -> SerAssistantMessage(m)
                      [] m.variant = "Tool" -> SerToolMessage(m))))

\* An internally tagged enum: the tag, then the fields of the variant's struct,
\* in one object.
SerChatCompletionMessage(m) ==
    JObj(Field("role", JStr(MessageRole[m.variant]))
         @@ CASE m.variant = "System" -> SerSystemMessage(m)
              [] m.variant = "User" -> SerUserMessage(m)
              [] m.variant = "Assistant" -> SerAssistantMessage(m)
              [] m.variant = "Tool" -> SerToolMessage(m))

SerMessages(msgs) == JArr([i \in 1..Len(msgs) |-> SerChatCompletionMessage(msgs[i])])

(***************************************************************************)
(* Tools, tool choice, response format.                                    *)
(***************************************************************************)
\* parameters is a serde_json::Value and serializes as itself.
SerValue(v) == v

SerFunctionInfo(f) ==
    JObj(Field("description", SerOptionString(f.description))
         @@ Field("name", SerString(f.name))
         @@ Field("parameters", SerValue(f.parameters)))

SerTool(t) ==
    JObj(Field("type", SerToolType(t.type))
         @@ Field("function", SerFunctionInfo(t.function)))

SerTools(tools) == JArr([i \in 1..Len(tools) |-> SerTool(tools[i])])

\* ToolChoice values: unit variants None and Auto, struct variant Function.
ToolChoiceNone == [variant |-> "None"]

ToolChoiceAuto == [variant |-> "Auto"]

ToolChoiceFunction(name) == [variant |-> "Function", name |-> name]

\* Every variant written as { token: { fields } }, the unit ones with no field.
SerToolChoiceAsMap(c) ==
    CASE c.variant = "None" -> JObj(Field("none", JObj(NoFields)))
      [] c.variant = "Auto" -> JObj(Field("auto", JObj(NoFields)))
      [] c.variant = "Function" ->
            JObj(Field("function", JObj(Field("name", SerString(c.name)))))

\* #[serde(rename_all = "snake_case")] on an externally tagged enum: a unit
\* variant is its token, a struct variant is { token: { fields } }.
SerToolChoice(c) ==
    CASE c.variant = "None" -> JStr("none")
      [] c.variant = "Auto" -> JStr("auto")
      [] c.variant = "Function" ->
            JObj(Field("function", JObj(Field("name", SerString(c.name)))))

\* ChatResponseFormatObject { type }
ChatResponseFormatObject(type) == [type |-> type]

SerChatResponseFormatObject(o) ==
    JObj(Field("type", SerChatResponseFormat(o.type)))

(***************************************************************************)
(* Requests.                                                               *)
(***************************************************************************)
\* impl Serialize for ChatCompletionRequest (derived).
SerChatCompletionRequest(r) ==
    JObj(Field("messages", SerMessages(r.messages))
         @@ SkipIfNone("model", r.model, SerChatCompleteModel(r.model[1]))
         @@ SkipIfNone("frequency_penalty", r.frequency_penalty, SerNumber(r.frequency_penalty[1]))
         @@ SkipIfNone("max_tokens", r.max_tokens, SerNumber(r.max_tokens[1]))
         @@ SkipIfNone("n", r.n, SerNumber(r.n[1]))
         @@ SkipIfNone("presence_penalty", r.presence_penalty, SerNumber(r.presence_penalty[1]))
         @@ SkipIfNone("response_format", r.response_format, SerChatResponseFormatObject(r.response_format[1]))
         @@ SkipIfNone("seed", r.seed, SerString(r.seed[1]))
         @@ SkipIfNone("stop", r.stop, SerString(r.stop[1]))
         @@ SkipIfNone("stream", r.stream, SerBool(r.stream[1]))
         @@ SkipIfNone("temperature", r.temperature, SerNumber(r.temperature[1]))
         @@ SkipIfNone("top_p", r.top_p, SerNumber(r.top_p[1]))
         @@ SkipIfEmpty("tools", r.tools, SerTools(r.tools))
         @@ SkipIfNone("tool_choice", r.tool_choice, SerToolChoice(r.tool_choice[1]))
         @@ SkipIfNone("user", r.user, SerString(r.user[1])))

\* impl Serialize for CreateImageRequest (derived).
SerCreateImageRequest(r) ==
    JObj(Field("prompt", SerString(r.prompt))
         @@ Field("model", SerImageModel(r.model))
         @@ SkipIfNone("n", r.n, SerNumber(r.n[1]))
         @@ SkipIfNone("quality", r.quality, SerImageQuality(r.quality[1]))
         @@ SkipIfNone("response_format", r.response_format, SerImageResponseFormat(r.response_format[1]))
         @@ SkipIfNone("size", r.size, SerImageSize(r.size[1]))
         @@ SkipIfNone("style", r.style, SerImageStyle(r.style[1]))
         @@ SkipIfNone("user", r.user, SerString(r.user[1])))

(***************************************************************************)
(* The builders generated by #[derive(Builder)].  A builder holds every    *)
(* field of the struct as an Option, None until its setter is called.      *)
(***************************************************************************)
ChatFields ==
    {"messages", "model", "frequency_penalty", "max_tokens", "n", "presence_penalty",
     "response_format", "seed", "stop", "stream", "temperature", "top_p", "tools",
     "tool_choice", "user"}

\* Fields of type Option<T> whose setter takes a T: #[builder(setter(strip_option))].
ChatStripOption == ChatFields \ {"messages", "tools"}

ImageFields ==
    {"prompt", "model", "n", "quality", "response_format", "size", "style", "user"}

ImageStripOption == ImageFields \ {"prompt", "model"}

\* ChatCompletionRequestBuilder::default()
ChatBuilderDefault == [f \in ChatFields |-> None]

\* CreateImageRequestBuilder::default()
ImageBuilderDefault == [f \in ImageFields |-> None]

\* A generated setter: the field is overwritten with the new value.
\* A setter that keeps the value of the first call.
ChatSetterOnce(b, f, v) ==
    IF IsSome(b[f]) THEN b
    ELSE [b EXCEPT ![f] = IF f \in ChatStripOption THEN Some(Some(v)) ELSE Some(v)]

ChatSetter(b, f, v) ==
    [b EXCEPT ![f] = IF f \in ChatStripOption THEN Some(Some(v)) ELSE Some(v)]

ImageSetter(b, f, v) ==
    [b EXCEPT ![f] = IF f \in ImageStripOption THEN Some(Some(v)) ELSE Some(v)]

\* A field under #[builder(default)]: the value set, or Default::default().
OrDefault(o, d) == IF IsSome(o) THEN o[1] ELSE d

\* <Builder>Error::UninitializedField(name)
UninitializedField(name) == [kind |-> "UninitializedField", field |-> name]

\* A build that takes unset messages as the empty list.
ChatBuildDefaulted(b) ==
    Ok([messages          |-> OrDefault(b.messages, <<>>),
        model             |-> OrDefault(b.model, None),
        frequency_penalty |-> OrDefault(b.frequency_penalty, None),
        max_tokens        |-> OrDefault(b.max_tokens, None),
        n                 |-> OrDefault(b.n, None),
        presence_penalty  |-> OrDefault(b.presence_penalty, None),
        response_format   |-> OrDefault(b.response_format, None),
        seed              |-> OrDefault(b.seed, None),
        stop              |-> OrDefault(b.stop, None),
        stream            |-> OrDefault(b.stream, None),
        temperature       |-> OrDefault(b.temperature, None),
        top_p             |-> OrDefault(b.top_p, None),
        tools             |-> OrDefault(b.tools, <<>>),
        tool_choice       |-> OrDefault(b.tool_choice, None),
        user              |-> OrDefault(b.user, None)])

\* ChatCompletionRequestBuilder::build(&self)
ChatBuild(b) ==
    IF IsNone(b.messages) THEN Err(UninitializedField("messages"))
    ELSE Ok([messages          |-> b.messages[1],
             model             |-> OrDefault(b.model, None),
             frequency_penalty |-> OrDefault(b.frequency_penalty, None),
             max_tokens        |-> OrDefault(b.max_tokens, None),
             n                 |-> OrDefault(b.n, None),
             presence_penalty  |-> OrDefault(b.presence_penalty, None),
             response_format   |-> OrDefault(b.response_format, None),
             seed              |-> OrDefault(b.seed, None),
             stop              |-> OrDefault(b.stop, None),
             stream            |-> OrDefault(b.stream, None),
             temperature       |-> OrDefault(b.temperature, None),
             top_p             |-> OrDefault(b.top_p, None),
             tools             |-> OrDefault(b.tools, <<>>),
             tool_choice       |-> OrDefault(b.tool_choice, None),
             user              |-> OrDefault(b.user, None)])

\* CreateImageRequestBuilder::build(&self)
ImageBuild(b) ==
    IF IsNone(b.prompt) THEN Err(UninitializedField("prompt"))
    ELSE Ok([prompt          |-> b.prompt[1],
             model           |-> OrDefault(b.model, "DallE3"),
             n               |-> OrDefault(b.n, None),
             quality         |-> OrDefault(b.quality, None),
             response_format |-> OrDefault(b.response_format, None),
             size            |-> OrDefault(b.size, None),
             style           |-> OrDefault(b.style, None),
             user            |-> OrDefault(b.user, None)])

\* Result::unwrap on a build that succeeded.
Unwrap(r) == r.val

\* A constructor that also fixes the quality.
CreateImageRequestNewStandard(prompt) ==
    Unwrap(ImageBuild(ImageSetter(ImageSetter(ImageBuilderDefault, "prompt", prompt),
                                  "quality", "Standard")))

\* CreateImageRequest::new(prompt)
CreateImageRequestNew(prompt) ==
    Unwrap(ImageBuild(ImageSetter(ImageBuilderDefault, "prompt", prompt)))

\* IntoRequest::into_request: POST to the endpoint with the request as JSON body.
ChatIntoRequest(req) ==
    [method |-> "POST", url |-> "https://api.openai.com/v1/chat/completions",
     json |-> SerChatCompletionRequest(req)]

ImageIntoRequest(req) ==
    [method |-> "POST", url |-> "https://api.openai.com/v1/images/generations",
     json |-> SerCreateImageRequest(req)]

(***************************************************************************)
(* Arguments the setters are called with.                                  *)
(***************************************************************************)
Contents == {"I can answer any question you ask me."}

Names == {"", "user1"}

ToolCallLists == {<<>>, <<ToolCall("call_1", "my_function", "{}")>>}

\* The expressions a caller writes for the elements of `messages`: a call of
\* new_system or new_user, or a variant written out.
NewSystemExpr(content, name) == [ctor |-> "new_system", content |-> content, name |-> name]

NewUserExpr(content, name) == [ctor |-> "new_user", content |-> content, name |-> name]

AssistantExpr(content, name, tool_calls) ==
    [ctor |-> "Assistant", content |-> content, name |-> name, tool_calls |-> tool_calls]

ToolExpr(content, tool_call_id) ==
    [ctor |-> "Tool", content |-> content, tool_call_id |-> tool_call_id]

\* The message an expression evaluates to.
EvalMessage(e) ==
    CASE e.ctor = "new_system" -> new_system(e.content, e.name)
      [] e.ctor = "new_user" -> new_user(e.content, e.name)
      [] e.ctor = "Assistant" -> AssistantMessage(e.content, e.name, e.tool_calls)
      [] e.ctor = "Tool" -> ToolMessage(e.content, e.tool_call_id)

EvalMessages(exprs) == [i \in 1..Len(exprs) |-> EvalMessage(exprs[i])]

\* The messages of get_simple_completion_request.
SimpleSystem == NewSystemExpr("I can answer any question you ask me.", "")

SimpleUser == NewUserExpr("What is human life expectancy in the world?", "user1")

MessageExprs ==
    {NewSystemExpr(c, n) : c \in Contents, n \in Names}
    \cup {NewUserExpr(c, n) : c \in Contents, n \in Names}
    \cup {AssistantExpr(c, None, t) : c \in Contents, t \in ToolCallLists}
    \cup {AssistantExpr(c, Some("bot"), <<>>) : c \in Contents}
    \cup {ToolExpr(c, "call_1") : c \in Contents}

MessageLists ==
    {<<>>} \cup {<<m>> : m \in MessageExprs}
    \cup {<<a, b>> : a \in {SimpleSystem, SimpleUser}, b \in {SimpleSystem, SimpleUser}}

Parameters == JObj(Field("type", JStr("object")))

Tools ==
    {Tool(None, "my_function", Parameters), Tool(Some("adds"), "add", Parameters)}

ToolLists == {<<>>} \cup {<<t>> : t \in Tools}

ToolChoices ==
    {ToolChoiceNone, ToolChoiceAuto}
    \cup {ToolChoiceFunction(f) : f \in {"my_function", "add"}}

\* f32 arguments (whole values, written as integers).
F32s == {0, 1}

Usizes == {1, 2}

Strings == {"a", "b"}

Prompts == {"hello world", "hello girl"}

ChatValues ==
    [model             |-> DOMAIN ChatCompleteModel,
     frequency_penalty |-> F32s,
     max_tokens        |-> Usizes,
     n                 |-> Usizes,
     presence_penalty  |-> F32s,
     response_format   |-> {ChatResponseFormatObject(t) : t \in DOMAIN ChatResponseFormat},
     seed              |-> Strings,
     stop              |-> Strings,
     stream            |-> BOOLEAN,
     temperature       |-> F32s,
     top_p             |-> F32s,
     tools             |-> ToolLists,
     tool_choice       |-> ToolChoices,
     user              |-> Strings]

ImageValues ==
    [prompt          |-> Prompts,
     model           |-> DOMAIN ImageModel,
     n               |-> Usizes,
     quality         |-> DOMAIN ImageQuality,
     response_format |-> DOMAIN ImageResponseFormat,
     size            |-> DOMAIN ImageSize,
     style           |-> DOMAIN ImageStyle,
     user            |-> Strings]

(***************************************************************************)
(* Response decoding (#[derive(Deserialize)]).  A response body is JSON    *)
(* text: an object of the body is the sequence of its <<key, value>>       *)
(* members in the order written, which is the order the decoder visits     *)
(* them in.                                                                *)
(***************************************************************************)
RObj(members) == <<"obj", members>>

\* serde::de::Error::{invalid_type, missing_field, duplicate_field, unknown_variant}
InvalidType(expected) == [kind |-> "invalid_type", expected |-> expected]

MissingField(name) == [kind |-> "missing_field", field |-> name]

DuplicateField(name) == [kind |-> "duplicate_field", field |-> name]

UnknownVariant(token, expected) ==
    [kind |-> "unknown_variant", variant |-> token, expected |-> expected]

Min(S) == CHOOSE x \in S : \A y \in S : x <= y

DeString(v) == IF v[1] = "str" THEN Ok(v[2]) ELSE Err(InvalidType("a string"))

DeUsize(v) == IF v[1] = "num" /\ v[2] >= 0 THEN Ok(v[2]) ELSE Err(InvalidType("usize"))

\* Option<String>: null is None, anything else is decoded as a String.
DeOptionString(v) ==
    IF v = JNull THEN Ok(None)
    ELSE IF DeString(v).ok THEN Ok(Some(DeString(v).val)) ELSE DeString(v)

\* A unit-variant enum: the variant whose token the string is.
DeUnitEnum(v, tokens) ==
    IF v[1] # "str" THEN Err(InvalidType("variant identifier"))
    ELSE IF \E x \in DOMAIN tokens : tokens[x] = v[2]
         THEN Ok(CHOOSE x \in DOMAIN tokens : tokens[x] = v[2])
         ELSE Err(UnknownVariant(v[2], {tokens[x] : x \in DOMAIN tokens}))

DeToolType(v) == DeUnitEnum(v, ToolType)

\* finish_reason decoded with a fallback to the #[default] variant.
DeFinishReasonOrDefault(v) ==
    IF DeUnitEnum(v, FinishReason).ok THEN DeUnitEnum(v, FinishReason) ELSE Ok("Stop")

DeFinishReason(v) == DeUnitEnum(v, FinishReason)

\* Vec<T>: results[i] is what decoding element i gives; the first element
\* that fails is the error.
DeVec(results) ==
    LET bad == {i \in 1..Len(results) : ~results[i].ok}
    IN IF bad # {} THEN results[Min(bad)]
       ELSE Ok([i \in 1..Len(results) |-> results[i].val])

\* The derived visit_map of a struct with the given fields: the members are
\* visited in order; a member of an unknown key is skipped, a key seen before
\* is a duplicate_field error, a value that does not decode is that error
\* (results[i] is what decoding member i as its field gives).  Without error
\* the result maps each field present to its value.
VisitMap(members, fields, results) ==
    LET known == {i \in 1..Len(members) : members[i][1] \in fields}
        dup(i) == \E j \in known : j < i /\ members[j][1] = members[i][1]
        bad == {i \in known : dup(i) \/ ~results[i].ok}
    IN IF bad # {}
       THEN LET i == Min(bad)
            IN IF dup(i) THEN Err(DuplicateField(members[i][1])) ELSE results[i]
       ELSE Ok([f \in {members[i][1] : i \in known} |->
                  results[CHOOSE i \in known : members[i][1] = f].val])

\* After the members: the first field, in declaration order, that was not
\* seen and is neither an Option nor under #[serde(default)] is a
\* missing_field error.
FirstMissing(m, required) ==
    IF \E i \in 1..Len(required) : required[i] \notin DOMAIN m
    THEN Some(required[Min({i \in 1..Len(required) : required[i] \notin DOMAIN m})])
    ELSE None

NotAStruct == Err(InvalidType("struct"))

NotASequence == Err(InvalidType("a sequence"))

\* The end of a derived visit_map: m is what the members gave, required the
\* fields that must have been seen, in declaration order.
Finish(m, required) ==
    IF ~m.ok THEN m
    ELSE IF IsSome(FirstMissing(m.val, required))
         THEN Err(MissingField(FirstMissing(m.val, required)[1]))
         ELSE m

\* FunctionCall { name: String, arguments: String }
FunctionCallFields == <<"name", "arguments">>

FunctionCallResults(members) ==
    [i \in 1..Len(members) |->
        IF members[i][1] \in {"name", "arguments"} THEN DeString(members[i][2])
        ELSE Ok(JNull)]

\* A struct is given as an object (the positional, array form is not used by
\* the bodies here).
DeFunctionCall(v) ==
    IF v[1] # "obj" THEN NotAStruct
    ELSE Finish(VisitMap(v[2], {"name", "arguments"}, FunctionCallResults(v[2])),
                FunctionCallFields)

DeToolCallField(f, v) ==
    CASE f = "id" -> DeString(v)
      [] f = "type" -> DeToolType(v)
      [] f = "function" -> DeFunctionCall(v)

\* ToolCall { id: String, type: ToolType, function: FunctionCall }
ToolCallFields == <<"id", "type", "function">>

ToolCallResults(members) ==
    [i \in 1..Len(members) |->
        IF members[i][1] \in {"id", "type", "function"}
        THEN DeToolCallField(members[i][1], members[i][2]) ELSE Ok(JNull)]

DeToolCall(v) ==
    IF v[1] # "obj" THEN NotAStruct
    ELSE Finish(VisitMap(v[2], {"id", "type", "function"}, ToolCallResults(v[2])),
                ToolCallFields)

DeToolCalls(v) ==
    IF v[1] # "arr" THEN NotASequence
    ELSE DeVec([i \in 1..Len(v[2]) |-> DeToolCall(v[2][i])])

DeAssistantMessageField(f, v) ==
    CASE f = "content" -> DeString(v)
      [] f = "name" -> DeOptionString(v)
      [] f = "tool_calls" -> DeToolCalls(v)

AssistantMessageResults(members) ==
    [i \in 1..Len(members) |->
        IF members[i][1] \in {"content", "name", "tool_calls"}
        THEN DeAssistantMessageField(members[i][1], members[i][2]) ELSE Ok(JNull)]

\* The fields of AssistantMessage that fail the decoding when absent: name is
\* an Option under #[serde(default)], content and tool_calls are neither.
AssistantMessageRequired == <<"content", "tool_calls">>

\* A field left absent that is allowed to be: its default.
AssistantMessageDefaults(m) ==
    IF m.ok THEN Ok(m.val @@ ("name" :> None)) ELSE m

\* AssistantMessage { content: String, #[serde(default)] name: Option<String>,
\*                    tool_calls: Vec<ToolCall> }
DeAssistantMessage(v) ==
    IF v[1] # "obj" THEN NotAStruct
    ELSE AssistantMessageDefaults(
            Finish(VisitMap(v[2], {"content", "name", "tool_calls"},
                            AssistantMessageResults(v[2])),
                   AssistantMessageRequired))

DeChatCompletionChoiceField(f, v) ==
    CASE f = "finish_reason" -> DeFinishReason(v)
      [] f = "index" -> DeUsize(v)
      [] f = "message" -> DeAssistantMessage(v)

\* ChatCompletionChoice { finish_reason: FinishReason, index: usize,
\*                        message: AssistantMessage }
ChatCompletionChoiceFields == <<"finish_reason", "index", "message">>

ChatCompletionChoiceResults(members) ==
    [i \in 1..Len(members) |->
        IF members[i][1] \in {"finish_reason", "index", "message"}
        THEN DeChatCompletionChoiceField(members[i][1], members[i][2]) ELSE Ok(JNull)]

DeChatCompletionChoice(v) ==
    IF v[1] # "obj" THEN NotAStruct
    ELSE Finish(VisitMap(v[2], {"finish_reason", "index", "message"},
                         ChatCompletionChoiceResults(v[2])),
                ChatCompletionChoiceFields)

DeChoices(v) ==
    IF v[1] # "arr" THEN NotASequence
    ELSE DeVec([i \in 1..Len(v[2]) |-> DeChatCompletionChoice(v[2][i])])

\* ChatCompleteUsage { completion_tokens, prompt_tokens, total_tokens: usize }
ChatCompleteUsageFields == <<"completion_tokens", "prompt_tokens", "total_tokens">>

ChatCompleteUsageResults(members) ==
    [i \in 1..Len(members) |->
        IF members[i][1] \in {"completion_tokens", "prompt_tokens", "total_tokens"}
        THEN DeUsize(members[i][2]) ELSE Ok(JNull)]

DeChatCompleteUsage(v) ==
    IF v[1] # "obj" THEN NotAStruct
    ELSE Finish(VisitMap(v[2], {"completion_tokens", "prompt_tokens", "total_tokens"},
                         ChatCompleteUsageResults(v[2])),
                ChatCompleteUsageFields)

DeChatCompletionResponseField(f, v) ==
    CASE f = "choices" -> DeChoices(v)
      [] f = "created" -> DeUsize(v)
      [] f = "usage" -> DeChatCompleteUsage(v)
      [] OTHER -> DeString(v)

\* ChatCompletionResponse { id, choices, created, model, system_fingerprint,
\*                          object, usage }
ChatCompletionResponseFields ==
    <<"id", "choices", "created", "model", "system_fingerprint", "object", "usage">>

ChatCompletionResponseResults(members) ==
    [i \in 1..Len(members) |->
        IF members[i][1] \in
              {"id", "choices", "created", "model", "system_fingerprint", "object", "usage"}
        THEN DeChatCompletionResponseField(members[i][1], members[i][2]) ELSE Ok(JNull)]

DeChatCompletionResponse(v) ==
    IF v[1] # "obj" THEN NotAStruct
    ELSE Finish(VisitMap(v[2],
                         {"id", "choices", "created", "model", "system_fingerprint",
                          "object", "usage"},
                         ChatCompletionResponseResults(v[2])),
                ChatCompletionResponseFields)

(***************************************************************************)
(* The builder machine: setter calls, build, new and into_request.         *)
(***************************************************************************)
NoBody == JNull

NotDecoded == [op |-> "none"]

BuilderInit ==
    /\ chatBuilder = ChatBuilderDefault
    /\ imageBuilder = ImageBuilderDefault
    /\ hist = [chat |-> [f \in ChatFields |-> <<>>], image |-> [f \in ImageFields |-> <<>>]]
    /\ calls = 0
    /\ ret = [op |-> "default"]

Init ==
    /\ BuilderInit
    /\ body = NoBody
    /\ decoded = NotDecoded
    /\ failed = {}

\* builder.messages(exprs) on the chat-completion builder.
ChatSetMessages(exprs) ==
    /\ calls < MaxCalls
    /\ chatBuilder' = ChatSetter(chatBuilder, "messages", EvalMessages(exprs))
    /\ hist' = [hist EXCEPT !.chat["messages"] = Append(@, exprs)]
    /\ calls' = calls + 1
    /\ ret' = [op |-> "setter", kind |-> "chat"]
    /\ UNCHANGED <<imageBuilder, body, decoded, failed>>

\* builder.<f>(v) on the chat-completion builder, for the other fields.
ChatSet(f, v) ==
    /\ calls < MaxCalls
    /\ chatBuilder' = ChatSetter(chatBuilder, f, v)
    /\ hist' = [hist EXCEPT !.chat[f] = Append(@, v)]
    /\ calls' = calls + 1
    /\ ret' = [op |-> "setter", kind |-> "chat"]
    /\ UNCHANGED <<imageBuilder, body, decoded, failed>>

\* builder.<f>(v) on the image builder.
ImageSet(f, v) ==
    /\ calls < MaxCalls
    /\ imageBuilder' = ImageSetter(imageBuilder, f, v)
    /\ hist' = [hist EXCEPT !.image[f] = Append(@, v)]
    /\ calls' = calls + 1
    /\ ret' = [op |-> "setter", kind |-> "image"]
    /\ UNCHANGED <<chatBuilder, body, decoded, failed>>

\* builder.build() on the chat-completion builder.
ChatBuildCall ==
    /\ ret' = [op |-> "build", kind |-> "chat", result |-> ChatBuild(chatBuilder)]
    /\ UNCHANGED <<chatBuilder, imageBuilder, hist, calls, body, decoded, failed>>

\* builder.build() on the image builder.
ImageBuildCall ==
    /\ ret' = [op |-> "build", kind |-> "image", result |-> ImageBuild(imageBuilder)]
    /\ UNCHANGED <<chatBuilder, imageBuilder, hist, calls, body, decoded, failed>>

\* CreateImageRequest::new(p)
ImageNewCall(p) ==
    /\ ret' = [op |-> "new", kind |-> "image", arg |-> p,
               result |-> Ok(CreateImageRequestNew(p))]
    /\ UNCHANGED <<chatBuilder, imageBuilder, hist, calls, body, decoded, failed>>

\* req.into_request(client) on the request the last call returned; `of` is
\* that call, whose request is moved in.
IntoRequestCall ==
    /\ ret.op \in {"build", "new"}
    /\ ret.result.ok
    /\ ret' = [op |-> "into_request", kind |-> ret.kind, of |-> ret,
               http |-> IF ret.kind = "chat" THEN ChatIntoRequest(ret.result.val)
                        ELSE ImageIntoRequest(ret.result.val)]
    /\ UNCHANGED <<chatBuilder, imageBuilder, hist, calls, body, decoded, failed>>

Next ==
    \/ \E exprs \in MessageLists : ChatSetMessages(exprs)
    \/ \E f \in ChatFields \ {"messages"} : \E v \in ChatValues[f] : ChatSet(f, v)
    \/ \E f \in ImageFields : \E v \in ImageValues[f] : ImageSet(f, v)
    \/ ChatBuildCall
    \/ ImageBuildCall
    \/ \E p \in Prompts : ImageNewCall(p)
    \/ IntoRequestCall

Spec == Init /\ [][Next]_vars

(***************************************************************************)
(* Building again: setter calls and builds on the same builders, with the  *)
(* failed builds recorded.                                                 *)
(***************************************************************************)
\* The builders a build has failed on, after a build that returned result.
Failed(kind, result) == IF result.ok THEN failed ELSE failed \cup {kind}

\* A build that moves the fields out of the builder.
ChatRebuildTaking ==
    /\ ret' = [op |-> "build", kind |-> "chat", result |-> ChatBuild(chatBuilder)]
    /\ chatBuilder' = ChatBuilderDefault
    /\ failed' = Failed("chat", ChatBuild(chatBuilder))
    /\ UNCHANGED <<imageBuilder, hist, calls, body, decoded>>

\* builder.build() on the chat-completion builder: build(&self) reads the
\* builder and clones its fields.
ChatRebuildCall ==
    /\ ret' = [op |-> "build", kind |-> "chat", result |-> ChatBuild(chatBuilder)]
    /\ failed' = Failed("chat", ChatBuild(chatBuilder))
    /\ UNCHANGED <<chatBuilder, imageBuilder, hist, calls, body, decoded>>

\* builder.build() on the image builder (pattern = "mutable").
ImageRebuildCall ==
    /\ ret' = [op |-> "build", kind |-> "image", result |-> ImageBuild(imageBuilder)]
    /\ failed' = Failed("image", ImageBuild(imageBuilder))
    /\ UNCHANGED <<chatBuilder, imageBuilder, hist, calls, body, decoded>>

\* The setters called between builds.
RebuildMessageLists == {<<>>, <<SimpleSystem>>, <<SimpleSystem, SimpleUser>>}

RebuildChatFields == {"stream", "tools", "tool_choice", "user"}

RebuildImageFields == {"prompt", "model", "quality", "user"}

NextRebuild ==
    \/ \E exprs \in RebuildMessageLists : ChatSetMessages(exprs)
    \/ \E f \in RebuildChatFields : \E v \in ChatValues[f] : ChatSet(f, v)
    \/ \E f \in RebuildImageFields : \E v \in ImageValues[f] : ImageSet(f, v)
    \/ ChatRebuildCall
    \/ ImageRebuildCall

SpecRebuild == Init /\ [][NextRebuild]_vars

(***************************************************************************)
(* Response bodies handed to the decoder.                                  *)
(***************************************************************************)
ToolCallBody ==
    RObj(<<<<"id", JStr("call_1")>>, <<"type", JStr("function")>>,
           <<"function", RObj(<<<<"name", JStr("my_function")>>,
                                <<"arguments", JStr("{}")>>>>)>>>>)

\* Messages: content alone, with a name, with an empty tool_calls, with a
\* null name and one tool call, and one without content.
MessageBodies ==
    LET content == <<"content", JStr("hi")>>
    IN {RObj(<<content>>),
        RObj(<<content, <<"name", JStr("bot")>>>>),
        RObj(<<content, <<"tool_calls", JArr(<<>>)>>>>),
        RObj(<<content, <<"name", JNull>>, <<"tool_calls", JArr(<<ToolCallBody>>)>>>>),
        RObj(<<<<"tool_calls", JArr(<<>>)>>>>)}

\* finish_reason: the four tokens, two strings that are none of them, null.
FinishReasonBodies ==
    {JStr(FinishReason[x]) : x \in DOMAIN FinishReason}
    \cup {JStr("function_call"), JStr("Stop"), JNull}

\* A choice with its members in either order, with or without finish_reason.
ChoiceBodies ==
    {RObj(<<<<"finish_reason", r>>, <<"index", JNum(0)>>, <<"message", m>>>>) :
        r \in FinishReasonBodies, m \in MessageBodies}
    \cup {RObj(<<<<"message", m>>, <<"index", JNum(0)>>, <<"finish_reason", r>>>>) :
        r \in FinishReasonBodies, m \in MessageBodies}
    \cup {RObj(<<<<"index", JNum(0)>>, <<"message", m>>>>) : m \in MessageBodies}

ChoiceLists == UNION {[1..k -> ChoiceBodies] : k \in 0..MaxChoices}

UsageBody ==
    RObj(<<<<"completion_tokens", JNum(1)>>, <<"prompt_tokens", JNum(2)>>,
           <<"total_tokens", JNum(3)>>>>)

\* A body with every field of the response, one without system_fingerprint,
\* and one with a member the schema does not know.
ResponseBodies ==
    LET head(c) == <<<<"id", JStr("chatcmpl-1")>>, <<"choices", JArr(c)>>,
                     <<"created", JNum(1)>>, <<"model", JStr("gpt-4")>>>>
        fp == <<<<"system_fingerprint", JStr("fp_1")>>>>
        tail == <<<<"object", JStr("chat.completion")>>, <<"usage", UsageBody>>>>
        extra == <<<<"service_tier", JStr("default")>>>>
    IN {RObj(head(c) \o fp \o tail) : c \in ChoiceLists}
       \cup {RObj(head(c) \o tail) : c \in ChoiceLists}
       \cup {RObj(extra \o head(c) \o fp \o tail) : c \in ChoiceLists}

(***************************************************************************)
(* The decoding machine: one body arrives and is decoded.                  *)
(***************************************************************************)
Receive ==
    /\ body = NoBody
    /\ \E b \in ResponseBodies : body' = b
    /\ decoded' = NotDecoded
    /\ UNCHANGED <<chatBuilder, imageBuilder, hist, calls, ret, failed>>

\* serde_json::from_slice::<ChatCompletionResponse>(body)
Decode ==
    /\ body # NoBody
    /\ decoded' = [op |-> "decode", result |-> DeChatCompletionResponse(body)]
    /\ UNCHANGED <<chatBuilder, imageBuilder, hist, calls, ret, body, failed>>

NextDecode ==
    \/ Receive
    \/ Decode

SpecDecode == Init /\ [][NextDecode]_vars

(***************************************************************************)
(* Properties.                                                             *)
(***************************************************************************)
Last(seq) == seq[Len(seq)]

\* The last call was into_request on a request of the given kind.
Sent(kind) == ret.op = "into_request" /\ ret.kind = kind

\* The request that was sent, its JSON body, and the call that made it.
SentReq == ret.of.result.val

SentJson == ret.http.json

\* The last call was build on the builder of the given kind.
Built(kind) == ret.op = "build" /\ ret.kind = kind

\* Whether the setter of a field was ever called.
WasSet(kind, f) == hist[kind][f] # <<>>

\* C1: a request whose tool_choice is ToolChoice::Function{name: f} serializes
\* tool_choice as {"type": "function", "function": {"name": f}}.
C1_FunctionToolChoiceIsTypedObject ==
    (Sent("chat") /\ WasSet("chat", "tool_choice")
     /\ Last(hist.chat["tool_choice"]).variant = "Function")
    => /\ "tool_choice" \in Keys(SentJson)
       /\ SentJson[2]["tool_choice"] =
            JObj([type |-> JStr("function"),
                  function |-> JObj([name |-> JStr(Last(hist.chat["tool_choice"]).name)])])

\* C2: a response_format that is set serializes as {"type": t} with t "text"
\* for ChatResponseFormat::Text and "json_object" for ChatResponseFormat::Json.
C2_ResponseFormatTokens ==
    (Sent("chat") /\ WasSet("chat", "response_format"))
    => /\ "response_format" \in Keys(SentJson)
       /\ SentJson[2]["response_format"] =
            JObj([type |-> JStr(IF Last(hist.chat["response_format"]).type = "Text"
                                THEN "text" ELSE "json_object")])

\* Only the required field of the builder of the given kind was set.
OnlyRequiredSet(kind, required, fields) ==
    /\ WasSet(kind, required)
    /\ \A f \in fields \ {required} : ~WasSet(kind, f)

\* C4 as stated: a request built with only its required field set serializes
\* to an object whose keys are exactly the required field.
C4_OnlyRequiredKeys ==
    /\ (Sent("chat") /\ OnlyRequiredSet("chat", "messages", ChatFields))
       => Keys(SentJson) = {"messages"}
    /\ (Sent("image") /\ ret.of.op = "build" /\ OnlyRequiredSet("image", "prompt", ImageFields))
       => Keys(SentJson) = {"prompt"}

\* C4 amended: with only the required field set, a chat-completion request
\* has the key `messages` alone, and an image request has `prompt` and
\* `model`, the model being "dall-e-3".
C4_OnlyRequiredKeysAndImageModel ==
    /\ (Sent("chat") /\ OnlyRequiredSet("chat", "messages", ChatFields))
       => Keys(SentJson) = {"messages"}
    /\ (Sent("image") /\ ret.of.op = "build" /\ OnlyRequiredSet("image", "prompt", ImageFields))
       => /\ Keys(SentJson) = {"prompt", "model"}
          /\ SentJson[2]["model"] = JStr("dall-e-3")

C4_Witness ==
    /\ Sent("image")
    /\ ret.of.op = "build"
    /\ OnlyRequiredSet("image", "prompt", ImageFields)

\* What C5 says new(p) serializes to.
PromptAndModel(p) == JObj([prompt |-> JStr(p), model |-> JStr("dall-e-3")])

\* C5: CreateImageRequest::new(p) and the builder given prompt(p) alone
\* serialize to the same object, {"prompt": p, "model": "dall-e-3"}.
C5_NewEqualsBuilder ==
    /\ (Sent("image") /\ ret.of.op = "new")
       => SentJson = PromptAndModel(ret.of.arg)
    /\ (Sent("image") /\ ret.of.op = "build" /\ OnlyRequiredSet("image", "prompt", ImageFields))
       => SentJson = PromptAndModel(Last(hist.image["prompt"]))

\* A request made by new(p) was sent while the builder holds prompt(p) alone,
\* and what the builder builds serializes to the same body.
C5_Witness ==
    /\ Sent("image")
    /\ ret.of.op = "new"
    /\ OnlyRequiredSet("image", "prompt", ImageFields)
    /\ Last(hist.image["prompt"]) = ret.of.arg
    /\ SerCreateImageRequest(Unwrap(ImageBuild(imageBuilder))) = SentJson

\* C6: build on a builder whose required field was never set fails with the
\* missing-field error naming that field, whatever else was set.
C6_BuildWithoutRequiredFails ==
    /\ (Built("chat") /\ ~WasSet("chat", "messages"))
       => ret.result = Err(UninitializedField("messages"))
    /\ (Built("image") /\ ~WasSet("image", "prompt"))
       => ret.result = Err(UninitializedField("prompt"))

\* build was called on a chat-completion builder with optional fields set and
\* no messages.
C6_Witness ==
    /\ Built("chat")
    /\ ~WasSet("chat", "messages")
    /\ WasSet("chat", "tool_choice")
    /\ WasSet("chat", "user")
    /\ ~ret.result.ok

\* The key of an optional field is expected in the output: the field was set
\* (tools: set, last to a list that is not empty).
Expected(kind, f) ==
    /\ WasSet(kind, f)
    /\ (kind = "chat" /\ f = "tools") => Last(hist.chat["tools"]) # <<>>

NoNull(j) == \A k \in Keys(j) : j[2][k] # JNull

\* C7 as stated: the key of every optional field is in the output exactly
\* when the field was set (tools: to a list that is not empty), and no key
\* has the value null.
C7_OptionalKeyIffSet ==
    /\ Sent("chat") /\ ret.of.op = "build"
       => /\ \A f \in ChatFields \ {"messages"} :
                f \in Keys(SentJson) <=> Expected("chat", f)
          /\ NoNull(SentJson)
    /\ Sent("image") /\ ret.of.op = "build"
       => /\ \A f \in ImageFields \ {"prompt"} :
                f \in Keys(SentJson) <=> Expected("image", f)
          /\ NoNull(SentJson)

\* C7 amended: as stated for the keys of the request object and for every
\* optional field but `model` of the image request, whose key is always in
\* the output; inside `tools`, a function's `description` is always in the
\* output, as null when it was not given.
C7_OptionalKeyIffSetButImageModel ==
    /\ Sent("chat") /\ ret.of.op = "build"
       => /\ \A f \in ChatFields \ {"messages"} :
                f \in Keys(SentJson) <=> Expected("chat", f)
          /\ NoNull(SentJson)
    /\ Sent("image") /\ ret.of.op = "build"
       => /\ \A f \in ImageFields \ {"prompt", "model"} :
                f \in Keys(SentJson) <=> Expected("image", f)
          /\ "model" \in Keys(SentJson)
          /\ NoNull(SentJson)
    /\ Sent("chat") /\ "tools" \in Keys(SentJson)
       => \A i \in 1..Len(SentReq.tools) :
             LET function == SentJson[2]["tools"][2][i][2]["function"]
             IN /\ "description" \in Keys(function)
                /\ function[2]["description"] = JNull
                   <=> IsNone(SentReq.tools[i].function.description)

\* A chat-completion request was sent whose tools had been set to the empty list.
C7_Witness ==
    /\ Sent("chat")
    /\ ret.of.op = "build"
    /\ WasSet("chat", "tools")
    /\ Last(hist.chat["tools"]) = <<>>

\* C8: a message made by new_system or new_user with the name "" serializes
\* without a `name` key, and one made with a name n serializes with "name": n.
C8_EmptyNameOmitted ==
    (Sent("chat") /\ ret.of.op = "build") =>
       LET exprs == Last(hist.chat["messages"])
           out == SentJson[2]["messages"][2]
       IN /\ Len(out) = Len(exprs)
          /\ \A i \in 1..Len(exprs) :
                exprs[i].ctor \in {"new_system", "new_user"}
                => IF exprs[i].name = ""
                   THEN "name" \notin Keys(out[i])
                   ELSE "name" \in Keys(out[i]) /\ out[i][2]["name"] = JStr(exprs[i].name)

\* The request of get_simple_completion_request's messages was sent.
C8_Witness ==
    /\ Sent("chat")
    /\ ret.of.op = "build"
    /\ Last(hist.chat["messages"]) = <<SimpleSystem, SimpleUser>>

\* The value the built request holds for a field whose setter was last called
\* with v.
Held(strip, f, v) ==
    IF f = "messages" THEN EvalMessages(v)
    ELSE IF f \in strip THEN Some(v) ELSE v

\* C9: a built request holds, for each field whose setter was called, the
\* argument of the last call of that setter, whatever other setters were called.
C9_LastWriteWins ==
    /\ (Built("chat") /\ ret.result.ok)
       => \A f \in ChatFields :
             WasSet("chat", f)
             => ret.result.val[f] = Held(ChatStripOption, f, Last(hist.chat[f]))
    /\ (Built("image") /\ ret.result.ok)
       => \A f \in ImageFields :
             WasSet("image", f)
             => ret.result.val[f] = Held(ImageStripOption, f, Last(hist.image[f]))

\* A request was built after messages was set twice, to different lists that
\* are not empty.
C9_Witness ==
    /\ Built("chat")
    /\ ret.result.ok
    /\ Len(hist.chat["messages"]) = 2
    /\ hist.chat["messages"][1] # <<>>
    /\ hist.chat["messages"][2] # <<>>
    /\ hist.chat["messages"][1] # hist.chat["messages"][2]

\* C11: a request whose tool_choice is ToolChoice::None serializes tool_choice
\* as the string "none", and one whose tool_choice is ToolChoice::Auto as the
\* string "auto".
C11_UnitToolChoiceIsBareString ==
    (Sent("chat") /\ WasSet("chat", "tool_choice")) =>
       LET choice == Last(hist.chat["tool_choice"])
       IN /\ choice.variant = "None"
             => /\ "tool_choice" \in Keys(SentJson)
                /\ SentJson[2]["tool_choice"] = JStr("none")
          /\ choice.variant = "Auto"
             => /\ "tool_choice" \in Keys(SentJson)
                /\ SentJson[2]["tool_choice"] = JStr("auto")

\* get_simple_completion_request was sent: tool_choice(ToolChoice::Auto), then
\* the two messages.
C11_Witness ==
    /\ Sent("chat")
    /\ hist.chat["tool_choice"] = <<ToolChoiceAuto>>
    /\ hist.chat["messages"] = <<(<<SimpleSystem, SimpleUser>>)>>
    /\ IsStr(SentJson[2]["tool_choice"])

\* The role a message written as the expression e is expected to carry.
ExpectedRole(e) ==
    CASE e.ctor = "new_system" -> "system"
      [] e.ctor = "new_user" -> "user"
      [] e.ctor = "Assistant" -> "assistant"
      [] e.ctor = "Tool" -> "tool"

\* The names of the fields of the variant with the given role.
OwnFields(role) ==
    CASE role = "system" -> {"content", "name"}
      [] role = "user" -> {"content", "name"}
      [] role = "assistant" -> {"content", "name", "tool_calls"}
      [] role = "tool" -> {"content", "tool_call_id"}

\* j is one object holding `role` and the fields of the message written as e,
\* and no other key.
FlatMessage(j, e) ==
    /\ IsObj(j)
    /\ "role" \in Keys(j)
    /\ j[2]["role"] = JStr(ExpectedRole(e))
    /\ Keys(j) \ {"role"} \subseteq OwnFields(ExpectedRole(e))
    /\ "content" \in Keys(j)
    /\ j[2]["content"] = JStr(e.content)
    /\ e.ctor = "Tool"
       => /\ "tool_call_id" \in Keys(j)
          /\ j[2]["tool_call_id"] = JStr(e.tool_call_id)

\* C12: every message serializes as one flat object of the variant's fields
\* and a `role` key naming the variant in lower case, with no wrapper, and
\* the messages array keeps the order given to the builder.
C12_MessagesFlatWithRoleInOrder ==
    (Sent("chat") /\ ret.of.op = "build") =>
       LET exprs == Last(hist.chat["messages"])
           out == SentJson[2]["messages"]
       IN /\ out[1] = "arr"
          /\ Len(out[2]) = Len(exprs)
          /\ \A i \in 1..Len(exprs) : FlatMessage(out[2][i], exprs[i])

\* A request of two messages of different variants was sent, the user message
\* first.
C12_Witness ==
    /\ Sent("chat")
    /\ Last(hist.chat["messages"]) = <<SimpleUser, SimpleSystem>>
    /\ SentJson[2]["messages"][2][1][2]["role"] = JStr("user")
    /\ SentJson[2]["messages"][2][2][2]["role"] = JStr("system")

\* The builder a caller gets by calling, on a fresh builder, each setter that
\* was called, with the argument of its last call.
ChatFromStart ==
    [f \in ChatFields |->
        IF ~WasSet("chat", f) THEN ChatBuilderDefault[f]
        ELSE ChatSetter(ChatBuilderDefault, f,
                        IF f = "messages" THEN EvalMessages(Last(hist.chat[f]))
                        ELSE Last(hist.chat[f]))[f]]

ImageFromStart ==
    [f \in ImageFields |->
        IF ~WasSet("image", f) THEN ImageBuilderDefault[f]
        ELSE ImageSetter(ImageBuilderDefault, f, Last(hist.image[f]))[f]]

\* What a step that is a build call does.
BuildStep ==
    /\ chatBuilder' = chatBuilder
    /\ imageBuilder' = imageBuilder
    /\ (ret.op = "build" /\ ret.kind = ret'.kind) => ret'.result = ret.result
    /\ ret'.kind = "chat"
       => /\ chatBuilder' = ChatFromStart'
          /\ ret'.result = ChatBuild(ChatFromStart')
          /\ WasSet("chat", "messages")' => ret'.result.ok
    /\ ret'.kind = "image"
       => /\ imageBuilder' = ImageFromStart'
          /\ ret'.result = ImageBuild(ImageFromStart')
          /\ WasSet("image", "prompt")' => ret'.result.ok

\* C13: a build call, failed or successful, leaves both builders as they were;
\* the builder still holds every field set on it, so a build after the
\* required field is supplied succeeds with the request a fresh builder given
\* the same fields builds, and a build right after a build of the same
\* builder returns the same result.
C13_BuildLeavesBuilderUnchanged == [][ret'.op = "build" => BuildStep]_vars

\* A build of the chat-completion builder succeeded after an earlier build of
\* it had failed, a field set before the failure still in the request.
C13_Witness ==
    /\ Built("chat")
    /\ ret.result.ok
    /\ "chat" \in failed
    /\ WasSet("chat", "user")
    /\ ret.result.val.user = Some(Last(hist.chat["user"]))

\* Members of an object of a response body.
Has(members, k) == \E i \in 1..Len(members) : members[i][1] = k

Get(members, k) == members[CHOOSE i \in 1..Len(members) : members[i][1] = k][2]

Position(members, k) == CHOOSE i \in 1..Len(members) : members[i][1] = k

\* The body was decoded; its choices and what decoding returned.
Decoded == decoded.op = "decode"

BodyChoices == Get(body[2], "choices")[2]

ChoiceMessage(i) == Get(BodyChoices[i][2], "message")[2]

FinishTokens == {"stop", "length", "content_filter", "tool_calls"}

\* Choice i carries finish_reason as one of the four tokens / as another string.
GoodToken(i) ==
    /\ Has(BodyChoices[i][2], "finish_reason")
    /\ IsStr(Get(BodyChoices[i][2], "finish_reason"))
    /\ Get(BodyChoices[i][2], "finish_reason")[2] \in FinishTokens

BadToken(i) ==
    /\ Has(BodyChoices[i][2], "finish_reason")
    /\ IsStr(Get(BodyChoices[i][2], "finish_reason"))
    /\ Get(BodyChoices[i][2], "finish_reason")[2] \notin FinishTokens

\* Every field the response schema declares without Option is in the body,
\* except possibly tool_calls of a message.
RequiredPresent ==
    /\ \A k \in {"id", "choices", "created", "model", "system_fingerprint", "object", "usage"} :
          Has(body[2], k)
    /\ \A i \in 1..Len(BodyChoices) :
          /\ GoodToken(i)
          /\ Has(BodyChoices[i][2], "index")
          /\ Has(BodyChoices[i][2], "message")
          /\ Has(ChoiceMessage(i), "content")

\* C3: a body with every required field whose messages omit name and
\* tool_calls decodes, to messages with no name and no tool calls.
C3_AbsentOptionalFieldsDecode ==
    (Decoded /\ RequiredPresent)
    => /\ decoded.result.ok
       /\ \A i \in 1..Len(BodyChoices) :
             /\ ~Has(ChoiceMessage(i), "name")
                => decoded.result.val["choices"][i]["message"]["name"] = None
             /\ ~Has(ChoiceMessage(i), "tool_calls")
                => decoded.result.val["choices"][i]["message"]["tool_calls"] = <<>>

\* The variant a finish_reason token stands for.
FinishVariant(token) ==
    CASE token = "stop" -> "Stop"
      [] token = "length" -> "Length"
      [] token = "content_filter" -> "ContentFilter"
      [] token = "tool_calls" -> "ToolCalls"

\* Choice i has nothing that fails the decoding.
ChoiceDecodes(i) ==
    /\ GoodToken(i)
    /\ Has(BodyChoices[i][2], "index")
    /\ Has(BodyChoices[i][2], "message")
    /\ Has(ChoiceMessage(i), "content")
    /\ Has(ChoiceMessage(i), "tool_calls")

\* The finish_reason of choice i is the first thing wrong that the decoder
\* meets: the choices before it decode, and its message decodes or comes
\* after finish_reason.
BadTokenMetFirst(i) ==
    /\ BadToken(i)
    /\ \A j \in 1..(i - 1) : ChoiceDecodes(j)
    /\ \/ ~Has(BodyChoices[i][2], "message")
       \/ Position(BodyChoices[i][2], "finish_reason") < Position(BodyChoices[i][2], "message")
       \/ Has(ChoiceMessage(i), "content") /\ Has(ChoiceMessage(i), "tool_calls")

====
